---- MODULE Spec2Model ----
\* State-machine model of the PDF conversion pipeline of
\* backend/pdf_converter.py (PDFConverter): classification, rasterization,
\* per-page recognition in layout mode and in text mode, assembly and the
\* emitters.  The recognition engine, the rasterizer and the file system are
\* the environment: each of their calls either returns or raises.
EXTENDS Integers, Sequences, FiniteSets, TLC

\* ------------------------------------------------------------------ bounds

\* Largest number of pages of a source document in the pipeline model.
MaxPages == 3

\* Largest number of pages of a document handed to the classifier alone.
MaxSamplePages == 4

\* Last second of the wall clock in the model of the web API.
MaxClock == 1

\* Largest number of top-level nodes of a fragment handed to html_to_docx.
MaxBlocks == 2

\* ----------------------------------------------------------------- strings
\* A Python str is a sequence of tokens <<kind, n>>.  A token stands for a run
\* of n characters of one kind; <<"HDR", k>> stands for the 14 characters
\* "--- Page k ---".

NL == <<"NL", 1>>
SP == <<"SP", 1>>
SUR == <<"SUR", 1>>
QM == <<"?", 1>>

X(n) == <<"X", n>>

HDR(k) == <<"HDR", k>>

OCR_FAILED == <<"[OCR failed for this page]", 26>>

NO_TEXT == <<"[No text found on this page]", 28>>

HdrLen == 14

TokLen(t) == IF t[1] = "HDR" THEN HdrLen ELSE t[2]

IsSpace(t) == t[1] \in {"NL", "SP"}

RECURSIVE StrLen(_)
StrLen(s) == IF s = <<>> THEN 0 ELSE TokLen(Head(s)) + StrLen(Tail(s))

RECURSIVE LStrip(_)
LStrip(s) ==
    IF s = <<>> THEN <<>>
    ELSE IF IsSpace(Head(s)) THEN LStrip(Tail(s)) ELSE s

RECURSIVE RStrip(_)
RStrip(s) ==
    IF s = <<>> THEN <<>>
    ELSE IF IsSpace(s[Len(s)]) THEN RStrip(SubSeq(s, 1, Len(s) - 1)) ELSE s

Strip(s) == RStrip(LStrip(s))

RECURSIVE Join(_)
Join(parts) == IF parts = <<>> THEN <<>> ELSE Head(parts) \o Join(Tail(parts))

Min(a, b) == IF a < b THEN a ELSE b

\* ------------------------------------------------------- source documents
\* The embedded text of one page as pdfplumber's extract_text() gives it:
\* "none" (None), "raises" (the call raises) or "text" with the string.

PageNone == [st |-> "none", text |-> <<>>]
PageRaises == [st |-> "raises", text |-> <<>>]

PageText(s) == [st |-> "text", text |-> s]

\* A source file: whether pdfplumber can open it, and its pages.
SourceDoc(openable, pages) == [openable |-> openable, pages |-> pages]

\* ---------------------------------------------------------- is_scanned_pdf

SCAN_SAMPLE == 3
SCAN_THRESHOLD == 50

\* The loop of is_scanned_pdf over range(pages_to_check), from page index i
\* (1-based here) with the running total; "raise" when extract_text raises.
RECURSIVE SampleTotal(_, _, _, _)
SampleTotal(pages, i, pages_to_check, total) ==
    IF i > pages_to_check THEN total
    ELSE IF pages[i].st = "raises" THEN -1
    ELSE IF pages[i].st = "text" /\ pages[i].text # <<>>
         THEN SampleTotal(pages, i + 1, pages_to_check,
                          total + StrLen(Strip(pages[i].text)))
         ELSE SampleTotal(pages, i + 1, pages_to_check, total)

\* is_scanned_pdf sampling every page instead of the first three.
is_scanned_pdf_all_pages(d) ==
    IF ~d.openable THEN TRUE
    ELSE LET pages_to_check == Len(d.pages)
             total_text_length == SampleTotal(d.pages, 1, pages_to_check, 0)
         IN  IF total_text_length < 0 THEN TRUE
             ELSE IF pages_to_check = 0 THEN TRUE
             ELSE total_text_length < SCAN_THRESHOLD * pages_to_check

is_scanned_pdf(d) ==
    IF ~d.openable THEN TRUE
    ELSE LET pages_to_check == Min(SCAN_SAMPLE, Len(d.pages))
             total_text_length == SampleTotal(d.pages, 1, pages_to_check, 0)
         IN  IF total_text_length < 0 THEN TRUE
             ELSE IF pages_to_check = 0 THEN TRUE
             ELSE total_text_length < SCAN_THRESHOLD * pages_to_check

\* ------------------------------------------------------------------ files
\* The content of the file at a path.  NoFile: nothing there.  OldFile: a file
\* that was there before convert was called.  Partial: a file that was opened
\* for writing (created or truncated) and whose writer raised before finishing.

NoFile == [kind |-> "none", body |-> <<>>]
OldFile == [kind |-> "old", body |-> <<>>]
Partial == [kind |-> "partial", body |-> <<>>]

SourceBytes(d) == [kind |-> "source", body |-> <<d>>]

OcrPdf(pages) == [kind |-> "ocr-pdf", body |-> pages]

TxtFile(s) == [kind |-> "txt", body |-> s]

DocxFile(paragraphs) == [kind |-> "docx", body |-> paragraphs]

\* What open(path, 'wb') followed by a writer leaves at the path.
WriteOutcomes == {"ok", "open_error", "write_error"}

Written(old, outcome, content) ==
    CASE outcome = "ok" -> content
      [] outcome = "open_error" -> old
      [] outcome = "write_error" -> Partial

\* ----------------------------------------------------------------- images

Image(k) == [page |-> k, mode |-> "RGB", ops |-> <<>>]

NoImage == [page |-> 0, mode |-> "", ops |-> <<>>]

convert_from_path(d) == [k \in 1..Len(d.pages) |-> Image(k)]

_preprocess_image_for_ocr(image, preserve) ==
    LET gray == IF ~preserve /\ image.mode # "L"
                THEN [image EXCEPT !.mode = "L"] ELSE image
    IN  [gray EXCEPT !.ops = @ \o <<"Contrast(1.5)", "Sharpness(1.5)">>]

\* The single-page PDF tesseract makes of an image: the image with a text layer.
image_to_pdf_or_hocr(image) == [image |-> image, layer |-> "text"]

\* The strings image_to_string can return for a page.
RecTexts == { <<X(5), NL>>, <<HDR(1), NL, NL, X(2)>> }

\* ------------------------------------------------------------ the emitters

\* The section numbered from 0, as enumerate(images) without a start would.
SectionFromZero(k, page_text) == <<HDR(k - 1), NL, NL>> \o page_text \o <<NL, NL>>

\* f"--- Page {i} ---\n\n{page_text}\n\n"
Section(k, page_text) == <<HDR(k), NL, NL>> \o page_text \o <<NL, NL>>

\* text.encode('utf-8', errors='replace').decode('utf-8')
Utf8Replace(s) == [k \in 1..Len(s) |-> IF s[k] = SUR THEN QM ELSE s[k]]

\* re.compile(r'--- Page (\d+) ---\n\n', re.IGNORECASE) matching at position k
IsHdr(t) == t[1] \in {"HDR", "hdr"}

MatchAt(s, k) ==
    /\ k + 2 <= Len(s)
    /\ IsHdr(s[k])
    /\ s[k + 1] = NL
    /\ s[k + 2] = NL

Digits(k) == <<"DIGITS", k>>

\* page_pattern.split(text): the pieces between matches, with the captured
\* page number after each piece but the last.
RECURSIVE SplitFrom(_, _, _, _)
SplitFrom(s, k, cur, acc) ==
    IF k > Len(s) THEN Append(acc, cur)
    ELSE IF MatchAt(s, k)
         THEN SplitFrom(s, k + 3, <<>>, acc \o << cur, << Digits(s[k][2]) >> >>)
         ELSE SplitFrom(s, k + 1, Append(cur, s[k]), acc)

PageSplit(s) == SplitFrom(s, 1, <<>>, <<>>)

Run(s, bold, size, color) == [text |-> s, bold |-> bold, size |-> size, color |-> color]

Paragraph(runs) == [runs |-> runs, alignment |-> "unset"]

TITLE_PT == 14
HEADING_PT == 12

TitleParagraph == Paragraph(<< Run(<< <<"Extracted from: ", 16>>, <<"name", 1>> >>, TRUE, TITLE_PT, "") >>)

HeadingParagraph(page_num) ==
    Paragraph(<< Run(<< <<"Page ", 5>> >> \o page_num, TRUE, HEADING_PT, "00008B") >>)

BodyParagraph(content) ==
    Paragraph(IF content = <<>> THEN <<>> ELSE << Run(content, FALSE, 0, "") >>)

\* The loop of save_as_docx over range(1, len(parts), 2), from index k (0-based).
RECURSIVE DocxPages(_, _)
DocxPages(parts, k) ==
    IF k >= Len(parts) THEN <<>>
    ELSE IF k + 1 < Len(parts)
         THEN << HeadingParagraph(parts[k + 1]),
                 BodyParagraph(Strip(parts[k + 2])),
                 Paragraph(<<>>) >> \o DocxPages(parts, k + 2)
         ELSE DocxPages(parts, k + 2)

DocxDocument(s) == << TitleParagraph, Paragraph(<<>>) >> \o DocxPages(PageSplit(s), 1)

\* ------------------------------------------------------------------ state

VARIABLES
    input_pdf,       \* the source file's content (self.input_pdf)
    output_format,   \* self.output_format
    out_file,        \* the content of the file at output_path
    existing,        \* the content at output_path when convert was called
    pc,              \* where the request is
    force_ocr, preprocess, preserve_color,   \* the arguments of convert
    scanned,         \* the values is_scanned_pdf returned: <<>> or <<b>>
    use_ocr,
    images,          \* the list convert_from_path returned
    i,               \* the loop index of the page loops (1-based)
    pdf_writer,      \* the pages added to the PdfWriter
    text,            \* the list of strings the text loops append to
    log,             \* what was called on the environment, in order
    error            \* the exception convert raised, "" if none

\* The state outside PDFConverter: the constructor's argument, the entry
\* points that build a request, the folders of the web API and the editor's
\* HTML-to-document transcoder.
VARIABLES
    format_arg,      \* the output_format argument of PDFConverter(...)
    impl,            \* which pdf_converter module runs: "backend" or "legacy"
    entry,           \* the entry point that builds the request
    dpi_arg,         \* the dpi the caller asked for, as the entry point gets it
    dpi,             \* the dpi handed to convert and on to convert_from_path
    clock,           \* the wall clock, in seconds
    upload_folder,   \* the files of the upload folder
    output_folder,   \* the files of the output folder
    req,             \* the local variables of each /api/convert request
    html,            \* the parsed fragment html_to_docx is called with
    doc              \* the paragraphs of the document html_to_docx builds

convert_vars == << input_pdf, output_format, out_file, existing, pc, force_ocr,
                   preprocess, preserve_color, scanned, use_ocr, images, i,
                   pdf_writer, text, log, error >>




outside_convert == << format_arg, impl, entry, dpi_arg, dpi, clock, upload_folder, output_folder, req, html, doc >>

vars == << convert_vars, outside_convert >>

NoDpi == [kind |-> "absent", value |-> 0]

\* Nothing outside the converter is running.
OutsideIdle ==
    /\ impl = "backend"
    /\ entry = ""
    /\ dpi_arg = NoDpi
    /\ dpi = 0
    /\ clock = 0
    /\ upload_folder = {}
    /\ output_folder = {}
    /\ req = <<>>
    /\ html = <<>>
    /\ doc = <<>>

\* No conversion is running.
ConvertIdle ==
    /\ input_pdf = SourceDoc(FALSE, <<>>)
    /\ output_format = "pdf"
    /\ out_file = NoFile
    /\ existing = NoFile
    /\ force_ocr = FALSE
    /\ preprocess = TRUE
    /\ preserve_color = TRUE
    /\ scanned = <<>>
    /\ use_ocr = FALSE
    /\ images = <<>>
    /\ i = 1
    /\ pdf_writer = <<>>
    /\ text = <<>>
    /\ log = <<>>
    /\ error = ""

Event(ev, page, image, ok) == [ev |-> ev, page |-> page, image |-> image, ok |-> ok]

\* ------------------------------------------------------------- the inputs

LongText == << SP, X(60), SUR, NL >>

PageKinds == { PageNone, PageRaises, PageText(LongText) }

RECURSIVE SeqsUpTo(_, _)
SeqsUpTo(S, n) ==
    IF n = 0 THEN { <<>> }
    ELSE LET shorter == SeqsUpTo(S, n - 1)
         IN  shorter \cup { Append(q, x) : q \in shorter, x \in S }

Docs ==
    { SourceDoc(TRUE, pages) : pages \in SeqsUpTo(PageKinds, MaxPages) }
    \cup { SourceDoc(FALSE, pages) : pages \in SeqsUpTo({PageNone}, MaxPages) }

Formats == {"pdf", "txt", "docx"}

\* The state after PDFConverter(input_pdf, output_format) returned.
Init ==
    /\ input_pdf \in Docs
    /\ output_format \in Formats
    /\ out_file \in {NoFile, OldFile}
    /\ existing = out_file
    /\ format_arg = output_format
    /\ OutsideIdle
    /\ pc = "constructed"
    /\ force_ocr = FALSE
    /\ preprocess = TRUE
    /\ preserve_color = TRUE
    /\ scanned = <<>>
    /\ use_ocr = FALSE
    /\ images = <<>>
    /\ i = 1
    /\ pdf_writer = <<>>
    /\ text = <<>>
    /\ log = <<>>
    /\ error = ""

Raise(exc) ==
    /\ pc' = "raised"
    /\ error' = exc

\* ---------------------------------------------------------------- convert

\* The dispatch sending every pdf request down the OCR path.
BranchAlwaysOcr(fmt, ocr) ==
    IF fmt = "pdf"
    THEN "create_searchable_pdf"
    ELSE (IF ocr THEN "extract_text_ocr" ELSE "extract_text_digital")

\* The dispatch of convert() on the output format and use_ocr.
Branch(fmt, ocr) ==
    IF fmt = "pdf"
    THEN (IF ocr THEN "create_searchable_pdf" ELSE "copy")
    ELSE (IF ocr THEN "extract_text_ocr" ELSE "extract_text_digital")

\* convert() up to that dispatch: use_ocr = force_ocr or self.is_scanned_pdf()
Convert(force, pre, color) ==
    /\ pc = "constructed"
    /\ force_ocr' = force
    /\ preprocess' = pre
    /\ preserve_color' = color
    /\ scanned' = IF force THEN <<>> ELSE << is_scanned_pdf(input_pdf) >>
    /\ use_ocr' = (force \/ is_scanned_pdf(input_pdf))
    /\ log' = IF force THEN log
              ELSE Append(log, Event("is_scanned_pdf", 0, NoImage, TRUE))
    /\ pc' = Branch(output_format, use_ocr')
    /\ UNCHANGED << input_pdf, output_format, out_file, existing, images, i,
                    pdf_writer, text, error >>
    /\ UNCHANGED outside_convert

\* shutil.copy2(self.input_pdf, out)
CopyDigital(outcome) ==
    /\ pc = "copy"
    /\ out_file' = Written(out_file, outcome, SourceBytes(input_pdf))
    /\ log' = Append(log, Event("copy2", 0, NoImage, outcome = "ok"))
    /\ IF outcome = "ok"
       THEN pc' = "done" /\ UNCHANGED error
       ELSE Raise("OSError")
    /\ UNCHANGED << input_pdf, output_format, existing, force_ocr, preprocess,
                    preserve_color, scanned, use_ocr, images, i, pdf_writer,
                    text >>
    /\ UNCHANGED outside_convert

\* The engine check reporting a missing engine and carrying on.
CheckEngineIgnored(installed) ==
    /\ pc \in {"create_searchable_pdf", "extract_text_ocr"}
    /\ log' = Append(log, Event("get_tesseract_version", 0, NoImage, installed))
    /\ pc' = "rasterize"
    /\ UNCHANGED << input_pdf, output_format, out_file, existing, force_ocr,
                    preprocess, preserve_color, scanned, use_ocr, images, i,
                    pdf_writer, text, error >>
    /\ UNCHANGED outside_convert

\* pytesseract.get_tesseract_version() at the head of both OCR paths.
CheckEngine(installed) ==
    /\ pc \in {"create_searchable_pdf", "extract_text_ocr"}
    /\ log' = Append(log, Event("get_tesseract_version", 0, NoImage, installed))
    /\ IF installed
       THEN pc' = "rasterize" /\ UNCHANGED error
       ELSE Raise("TesseractNotFoundError")
    /\ UNCHANGED << input_pdf, output_format, out_file, existing, force_ocr,
                    preprocess, preserve_color, scanned, use_ocr, images, i,
                    pdf_writer, text >>
    /\ UNCHANGED outside_convert

\* images = convert_from_path(self.input_pdf, ...)
Rasterize(ok) ==
    /\ pc = "rasterize"
    /\ log' = Append(log, Event("convert_from_path", 0, NoImage, ok))
    /\ IF ok
       THEN /\ images' = convert_from_path(input_pdf)
            /\ pc' = "ocr_pages"
            /\ UNCHANGED error
       ELSE /\ Raise("PDFPageCountError")
            /\ UNCHANGED images
    /\ UNCHANGED << input_pdf, output_format, out_file, existing, force_ocr,
                    preprocess, preserve_color, scanned, use_ocr, i,
                    pdf_writer, text >>
    /\ UNCHANGED outside_convert

\* ------------------------------------------------ layout mode (PDF output)

AttemptOutcomes == {"ok", "preprocess_error", "ocr_error"}

\* The retry recognizing the loop variable, which holds the preprocessed image.
RetryImagePreprocessed(imgs, k) == _preprocess_image_for_ocr(imgs[k], FALSE)

\* orig_image = images[i - 1], the image the retry recognizes
RetryImage(imgs, k) == imgs[k]

\* The image the first attempt recognizes.
FirstImage(imgs, k, pre, color) ==
    IF pre THEN _preprocess_image_for_ocr(imgs[k], color) ELSE imgs[k]

\* What one attempt calls: preprocessing that raises, or a recognition.
AttemptLog(k, image, outcome) ==
    IF outcome = "preprocess_error"
    THEN << Event("_preprocess_image_for_ocr", k, NoImage, FALSE) >>
    ELSE << Event("recognize", k, image, outcome = "ok") >>

\* The first attempt adding its page before it raises, the retry adding another.
LayoutAddedTwice(first, retry, image, orig_image) ==
    IF first = "ok" THEN << image_to_pdf_or_hocr(image) >>
    ELSE IF first = "ocr_error" /\ retry = "ok"
         THEN << image_to_pdf_or_hocr(image), image_to_pdf_or_hocr(orig_image) >>
    ELSE IF retry = "ok" THEN << image_to_pdf_or_hocr(orig_image) >>
    ELSE <<>>

\* The pages one iteration of the loop adds to the writer.
LayoutAdded(first, retry, image, orig_image) ==
    IF first = "ok" THEN << image_to_pdf_or_hocr(image) >>
    ELSE IF retry = "ok" THEN << image_to_pdf_or_hocr(orig_image) >>
    ELSE <<>>

\* Whether the iteration ends in raise RuntimeError(...).
LayoutRaises(first, retry) == first # "ok" /\ retry # "ok"

\* One iteration of the loop of create_searchable_pdf: the attempt on the
\* (preprocessed) image and, when it raises, the retry on the original.
LayoutPage(first, retry) ==
    /\ pc = "ocr_pages"
    /\ output_format = "pdf"
    /\ i <= Len(images)
    /\ first = "preprocess_error" => preprocess
    /\ retry # "preprocess_error"
    /\ first = "ok" => retry = "ok"
    /\ LET image == FirstImage(images, i, preprocess, preserve_color)
           orig_image == RetryImage(images, i)
       IN  /\ log' = log \o AttemptLog(i, image, first)
                         \o (IF first = "ok" THEN <<>>
                             ELSE AttemptLog(i, orig_image, retry))
           /\ pdf_writer' = pdf_writer \o LayoutAdded(first, retry, image, orig_image)
    /\ IF LayoutRaises(first, retry)
       THEN Raise("RuntimeError") /\ UNCHANGED i
       ELSE i' = i + 1 /\ UNCHANGED << pc, error >>
    /\ UNCHANGED << input_pdf, output_format, out_file, existing, force_ocr,
                    preprocess, preserve_color, scanned, use_ocr, images,
                    text >>
    /\ UNCHANGED outside_convert

\* with open(output_path, 'wb') as f: pdf_writer.write(f)
WritePdf(outcome) ==
    /\ pc = "ocr_pages"
    /\ output_format = "pdf"
    /\ i > Len(images)
    /\ out_file' = Written(out_file, outcome, OcrPdf(pdf_writer))
    /\ log' = Append(log, Event("write", 0, NoImage, outcome = "ok"))
    /\ IF outcome = "ok"
       THEN pc' = "done" /\ UNCHANGED error
       ELSE Raise("OSError")
    /\ UNCHANGED << input_pdf, output_format, existing, force_ocr, preprocess,
                    preserve_color, scanned, use_ocr, images, i, pdf_writer,
                    text >>
    /\ UNCHANGED outside_convert

\* -------------------------------------------- text mode (TXT/DOCX output)

\* The string one iteration of the loop of extract_text_ocr appends.
TextAppended(k, outcome, page_text) ==
    IF outcome = "ok" THEN Section(k, page_text)
    ELSE Section(k, << OCR_FAILED >>)

\* One iteration of the loop of extract_text_ocr.
TextPage(outcome, page_text) ==
    /\ pc = "ocr_pages"
    /\ output_format # "pdf"
    /\ i <= Len(images)
    /\ outcome = "preprocess_error" => preprocess
    /\ LET image == FirstImage(images, i, preprocess, FALSE)
       IN  log' = log \o AttemptLog(i, image, outcome)
    /\ text' = Append(text, TextAppended(i, outcome, page_text))
    /\ i' = i + 1
    /\ UNCHANGED << input_pdf, output_format, out_file, existing, pc,
                    force_ocr, preprocess, preserve_color, scanned, use_ocr,
                    images, pdf_writer, error >>
    /\ UNCHANGED outside_convert

\* The string one iteration of the loop of extract_text_digital appends.
DigitalAppended(k, page) ==
    IF page.st = "text" /\ page.text # <<>>
    THEN Section(k, page.text)
    ELSE Section(k, << NO_TEXT >>)

\* One iteration of the loop of extract_text_digital.
DigitalPage ==
    /\ pc = "extract_text_digital"
    /\ i <= Len(input_pdf.pages)
    /\ log' = Append(log, Event("extract_text", i, NoImage,
                                input_pdf.pages[i].st # "raises"))
    /\ IF input_pdf.pages[i].st = "raises"
       THEN Raise("PDFSyntaxError") /\ UNCHANGED << text, i >>
       ELSE /\ text' = Append(text, DigitalAppended(i, input_pdf.pages[i]))
            /\ i' = i + 1
            /\ UNCHANGED << pc, error >>
    /\ UNCHANGED << input_pdf, output_format, out_file, existing, force_ocr,
                    preprocess, preserve_color, scanned, use_ocr, images,
                    pdf_writer >>
    /\ UNCHANGED outside_convert

\* The text loop has run over every page and returned ''.join(text).
TextReturned ==
    \/ pc = "ocr_pages" /\ output_format # "pdf" /\ i > Len(images)
    \/ pc = "extract_text_digital" /\ i > Len(input_pdf.pages)

\* save_as_txt(text, output_path)
save_as_txt(outcome) ==
    /\ TextReturned
    /\ output_format = "txt"
    /\ out_file' = Written(out_file, outcome, TxtFile(Utf8Replace(Join(text))))
    /\ log' = Append(log, Event("write", 0, NoImage, outcome = "ok"))
    /\ IF outcome = "ok"
       THEN pc' = "done" /\ UNCHANGED error
       ELSE Raise("OSError")
    /\ UNCHANGED << input_pdf, output_format, existing, force_ocr, preprocess,
                    preserve_color, scanned, use_ocr, images, i, pdf_writer,
                    text >>
    /\ UNCHANGED outside_convert

\* save_as_docx(text, output_path)
save_as_docx(outcome) ==
    /\ TextReturned
    /\ output_format = "docx"
    /\ out_file' = Written(out_file, outcome, DocxFile(DocxDocument(Join(text))))
    /\ log' = Append(log, Event("write", 0, NoImage, outcome = "ok"))
    /\ IF outcome = "ok"
       THEN pc' = "done" /\ UNCHANGED error
       ELSE Raise("OSError")
    /\ UNCHANGED << input_pdf, output_format, existing, force_ocr, preprocess,
                    preserve_color, scanned, use_ocr, images, i, pdf_writer,
                    text >>
    /\ UNCHANGED outside_convert

\* What convert() hands back to its caller once it returned: the string
\* str(out), the path of the output file, and nothing else.
ConvertReturn == [path |-> "output_path"]

\* ------------------------------------------------------- the specification

Next ==
    \/ \E force \in BOOLEAN, pre \in BOOLEAN, color \in BOOLEAN :
          Convert(force, pre, color)
    \/ \E outcome \in WriteOutcomes : CopyDigital(outcome)
    \/ \E installed \in BOOLEAN : CheckEngine(installed)
    \/ \E ok \in BOOLEAN : Rasterize(ok)
    \/ \E first \in AttemptOutcomes, retry \in AttemptOutcomes :
          LayoutPage(first, retry)
    \/ \E outcome \in WriteOutcomes : WritePdf(outcome)
    \/ \E outcome \in AttemptOutcomes, page_text \in RecTexts :
          TextPage(outcome, page_text)
    \/ DigitalPage
    \/ \E outcome \in WriteOutcomes : save_as_txt(outcome)
    \/ \E outcome \in WriteOutcomes : save_as_docx(outcome)

Spec == Init /\ [][Next]_vars

\* ------------------------------------------ the classifier on its own inputs

ShortText == << SP, X(49), NL >>

ClassifierPageKinds ==
    { PageNone, PageRaises, PageText(<<>>), PageText(ShortText),
      PageText(<< X(50) >>), PageText(<< X(51) >>), PageText(<< X(150) >>) }

ClassifierDocs ==
    { SourceDoc(TRUE, pages) : pages \in SeqsUpTo(ClassifierPageKinds, MaxSamplePages) }
    \cup { SourceDoc(FALSE, <<>>) }

InitClassifier ==
    /\ input_pdf \in ClassifierDocs
    /\ output_format = "pdf"
    /\ out_file = NoFile
    /\ existing = NoFile
    /\ format_arg = "pdf"
    /\ OutsideIdle
    /\ pc = "is_scanned_pdf"
    /\ force_ocr = FALSE
    /\ preprocess = TRUE
    /\ preserve_color = TRUE
    /\ scanned = <<>>
    /\ use_ocr = FALSE
    /\ images = <<>>
    /\ i = 1
    /\ pdf_writer = <<>>
    /\ text = <<>>
    /\ log = <<>>
    /\ error = ""

\* A call of is_scanned_pdf() on the source.
Classify ==
    /\ pc = "is_scanned_pdf"
    /\ scanned' = << is_scanned_pdf(input_pdf) >>
    /\ pc' = "classified"
    /\ UNCHANGED << input_pdf, output_format, out_file, existing, force_ocr,
                    preprocess, preserve_color, use_ocr, images, i,
                    pdf_writer, text, log, error >>
    /\ UNCHANGED outside_convert

NextClassifier == Classify

SpecClassifier == InitClassifier /\ [][NextClassifier]_vars

\* ------------------------------------------------- the web API (api.py)
\* Two /api/convert requests run concurrently, each in its own thread; a
\* request's steps interleave with the other's at its file-system calls.

Requests == {1, 2}

\* The file names browsers upload: stem and extension.
UploadNames ==
    { [stem |-> "", ext |-> ""],
      [stem |-> "a b", ext |-> "pdf"],
      [stem |-> "a_b", ext |-> "pdf"],
      [stem |-> "notes", ext |-> "txt"] }

ALLOWED_EXTENSIONS == {"pdf"}

allowed_file(name) == name.ext \in ALLOWED_EXTENSIONS

\* werkzeug's secure_filename: whitespace becomes an underscore.
secure_filename(name) ==
    [stem |-> IF name.stem = "a b" THEN "a_b" ELSE name.stem, ext |-> name.ext]

MAX_AGE_HOURS == 24
SECONDS_PER_HOUR == 3600

\* A file of a folder: its path, its content (the request whose upload the
\* bytes come from) and its modification time.
File(path, content, mtime) == [path |-> path, content |-> content, mtime |-> mtime]

FilePath(ts, stem, suffix, ext) == [ts |-> ts, stem |-> stem, suffix |-> suffix, ext |-> ext]

Exists(folder, path) == \E f \in folder : f.path = path

ContentAt(folder, path) == (CHOOSE f \in folder : f.path = path).content

\* Writing a file at a path replaces what was there.
Put(folder, path, content, now) ==
    { f \in folder : f.path # path } \cup { File(path, content, now) }

Unlink(folder, path) == { f \in folder : f.path # path }

cleanup_old_files(folder, now) ==
    { f \in folder : ~((now - f.mtime) > MAX_AGE_HOURS * SECONDS_PER_HOUR) }

IdleRequest ==
    [pc |-> "idle", filename |-> [stem |-> "", ext |-> ""], timestamp |-> 0,
     format |-> "", converted |-> 0, status |-> 0, download_name |-> <<>>]

\* input_path = upload_folder / f"{timestamp}_{filename}"
InputPath(r) == FilePath(req[r].timestamp, req[r].filename.stem, "", req[r].filename.ext)

\* output_path = output_folder / f"{timestamp}_{output_filename}"
OutputPath(r) ==
    FilePath(req[r].timestamp, req[r].filename.stem,
             IF req[r].format = "pdf" THEN "_searchable" ELSE "_converted",
             req[r].format)

InitApi ==
    /\ ConvertIdle
    /\ pc = "serving"
    /\ format_arg = ""
    /\ impl = "backend"
    /\ entry = "api"
    /\ dpi_arg = NoDpi
    /\ dpi = 0
    /\ clock = 0
    /\ upload_folder = {}
    /\ output_folder = {}
    /\ req = [r \in Requests |-> IdleRequest]
    /\ html = <<>>
    /\ doc = <<>>

ApiUnchanged == UNCHANGED << convert_vars, format_arg, impl, entry, dpi_arg, dpi, html, doc, clock >>

Respond(r, status) ==
    req' = [req EXCEPT ![r].pc = IF status = 200 THEN "responded" ELSE "failed",
                       ![r].status = status]

\* convert_pdf up to file.save(input_path): the cleanups, the checks of the
\* upload, the sanitized name, the timestamp and the saved upload.
ApiReceive(r, upload, fmt) ==
    /\ req[r].pc = "idle"
    /\ output_folder' = cleanup_old_files(output_folder, clock)
    /\ IF upload.stem = "" \/ ~allowed_file(upload)
       THEN /\ upload_folder' = cleanup_old_files(upload_folder, clock)
            /\ Respond(r, 400)
       ELSE LET filename == secure_filename(upload)
                path == FilePath(clock, filename.stem, "", filename.ext)
            IN  /\ upload_folder' = Put(cleanup_old_files(upload_folder, clock),
                                        path, r, clock)
                /\ req' = [req EXCEPT ![r].pc = "saved",
                                      ![r].filename = filename,
                                      ![r].timestamp = clock,
                                      ![r].format = fmt]
    /\ ApiUnchanged

\* converter = PDFConverter(str(input_path), output_format)
ApiConstruct(r) ==
    /\ req[r].pc = "saved"
    /\ IF ~Exists(upload_folder, InputPath(r)) \/ req[r].format \notin {"pdf", "txt", "docx"}
       THEN Respond(r, 500)
       ELSE req' = [req EXCEPT ![r].pc = "constructed"]
    /\ UNCHANGED << upload_folder, output_folder >>
    /\ ApiUnchanged

\* converter.convert(..., output_path=str(output_path), ...)
ApiConvert(r, ok) ==
    /\ req[r].pc = "constructed"
    /\ IF ok /\ Exists(upload_folder, InputPath(r))
       THEN /\ output_folder' = Put(output_folder, OutputPath(r),
                                    ContentAt(upload_folder, InputPath(r)), clock)
            /\ req' = [req EXCEPT ![r].pc = "converted",
                                  ![r].converted = ContentAt(upload_folder, InputPath(r))]
       ELSE /\ Respond(r, 500)
            /\ UNCHANGED output_folder
    /\ UNCHANGED upload_folder
    /\ ApiUnchanged

\* input_path.unlink() and the response
ApiUnlink(r) ==
    /\ req[r].pc = "converted"
    /\ IF Exists(upload_folder, InputPath(r))
       THEN /\ upload_folder' = Unlink(upload_folder, InputPath(r))
            /\ Respond(r, 200)
       ELSE /\ Respond(r, 500)
            /\ UNCHANGED upload_folder
    /\ UNCHANGED output_folder
    /\ ApiUnchanged

\* The pieces of a stem between its underscores.
StemSegments(stem) == IF stem = "a_b" THEN << "a", "b" >> ELSE << stem >>

\* path.name as the pieces between its underscores: the two pieces of
\* strftime('%Y%m%d_%H%M%S'), those of the stem, and the suffix with the
\* extension.
StoredName(path) ==
    << << "%Y%m%d", 0 >>, << "%H%M%S", path.ts >> >>
    \o [k \in 1..Len(StemSegments(path.stem)) |-> << StemSegments(path.stem)[k], 0 >>]
    \o << << path.suffix, path.ext >> >>

\* output_filename = Path(filename).stem + f'{suffix}.{ext}', in pieces
OutputFilename(r) ==
    [k \in 1..Len(StemSegments(req[r].filename.stem)) |->
        << StemSegments(req[r].filename.stem)[k], 0 >>]
    \o << << OutputPath(r).suffix, OutputPath(r).ext >> >>

\* filename.split('_', 1)[1] if '_' in filename else filename
DownloadName(name) == IF Len(name) > 1 THEN Tail(name) ELSE name

\* download_file(filename) on the download_url of the response
ApiDownload(r) ==
    /\ req[r].pc = "responded"
    /\ IF Exists(output_folder, OutputPath(r))
       THEN req' = [req EXCEPT ![r].pc = "downloaded",
                               ![r].download_name = DownloadName(StoredName(OutputPath(r)))]
       ELSE req' = [req EXCEPT ![r].pc = "downloaded", ![r].status = 404]
    /\ UNCHANGED << upload_folder, output_folder >>
    /\ ApiUnchanged

\* A second passes.
Tick ==
    /\ pc = "serving"
    /\ clock < MaxClock
    /\ clock' = clock + 1
    /\ UNCHANGED << convert_vars, format_arg, impl, entry, dpi_arg, dpi, html, doc,
                    upload_folder, output_folder, req >>

NextApi ==
    \/ \E r \in Requests, upload \in UploadNames, fmt \in {"pdf", "docx", "xml"} :
          ApiReceive(r, upload, fmt)
    \/ \E r \in Requests : ApiConstruct(r)
    \/ \E r \in Requests, ok \in BOOLEAN : ApiConvert(r, ok)
    \/ \E r \in Requests : ApiUnlink(r)
    \/ \E r \in Requests : ApiDownload(r)
    \/ Tick

SpecApi == InitApi /\ [][NextApi]_vars

\* ------------------------------------------- the entry points and the dpi
\* The three callers of PDFConverter.convert: /api/convert (backend/api.py),
\* the legacy /convert (app.py) and the command line (main).

EntryPoints == {"api", "legacy", "cli"}

DEFAULT_DPI == 350
MIN_DPI == 150
MAX_DPI == 600

DpiValues == {-1, 0, 1, 72, 149, 150, 151, 300, 350, 599, 600, 601, 1200}

\* What the caller sends as dpi: nothing, the empty string, a string int()
\* rejects, or the decimal string of an integer.
DpiArgs ==
    { NoDpi, [kind |-> "empty", value |-> 0], [kind |-> "garbage", value |-> 0] }
    \cup { [kind |-> "int", value |-> v] : v \in DpiValues }

Max(a, b) == IF a > b THEN a ELSE b

\* api.py: int(dpi_raw) if dpi_raw else 350, 350 on ValueError, then the clamp.
ApiDpiOf(arg) ==
    LET parsed == IF arg.kind = "int" THEN arg.value ELSE DEFAULT_DPI
    IN  Max(MIN_DPI, Min(MAX_DPI, parsed))

\* convert_from_path(str(self.input_pdf), dpi=dpi, ...)
RasterEvent(d, ok) ==
    [ev |-> "convert_from_path", page |-> 0, image |-> NoImage, ok |-> ok, dpi |-> d]

InitEntry ==
    /\ ConvertIdle
    /\ pc = "request"
    /\ format_arg = "pdf"
    /\ impl = "backend"
    /\ entry \in EntryPoints
    /\ dpi_arg \in DpiArgs
    /\ dpi = 0
    /\ clock = 0
    /\ upload_folder = {}
    /\ output_folder = {}
    /\ req = <<>>
    /\ html = <<>>
    /\ doc = <<>>

EntryUnchanged ==
    UNCHANGED << input_pdf, output_format, out_file, existing, force_ocr, preprocess,
                 preserve_color, scanned, images, i, pdf_writer, text,
                 format_arg, impl, entry, dpi_arg, clock, upload_folder, output_folder, req, html, doc >>

\* /api/convert: the parsed, defaulted and clamped dpi
ApiDpi ==
    /\ pc = "request"
    /\ entry = "api"
    /\ dpi' = ApiDpiOf(dpi_arg)
    /\ pc' = "convert"
    /\ UNCHANGED << use_ocr, log, error >>
    /\ EntryUnchanged

\* /convert of the legacy app: dpi = int(request.form.get('dpi', 350))
LegacyDpi ==
    /\ pc = "request"
    /\ entry = "legacy"
    /\ IF dpi_arg.kind \in {"empty", "garbage"}
       THEN /\ pc' = "rejected"
            /\ error' = "ValueError"
            /\ UNCHANGED dpi
       ELSE /\ dpi' = IF dpi_arg.kind = "int" THEN dpi_arg.value ELSE DEFAULT_DPI
            /\ pc' = "convert"
            /\ UNCHANGED error
    /\ UNCHANGED << use_ocr, log >>
    /\ EntryUnchanged

\* main: parser.add_argument('--dpi', type=int, default=350)
CliDpi ==
    /\ pc = "request"
    /\ entry = "cli"
    /\ IF dpi_arg.kind \in {"empty", "garbage"}
       THEN /\ pc' = "rejected"
            /\ error' = "SystemExit"
            /\ UNCHANGED dpi
       ELSE /\ dpi' = IF dpi_arg.kind = "int" THEN dpi_arg.value ELSE DEFAULT_DPI
            /\ pc' = "convert"
            /\ UNCHANGED error
    /\ UNCHANGED << use_ocr, log >>
    /\ EntryUnchanged

\* converter.convert(force_ocr=..., dpi=dpi, ...) up to its dispatch
EntryConvert(ocr) ==
    /\ pc = "convert"
    /\ use_ocr' = ocr
    /\ pc' = IF ocr THEN "rasterize" ELSE "done"
    /\ UNCHANGED << dpi, log, error >>
    /\ EntryUnchanged

\* create_searchable_pdf / extract_text_ocr: convert_from_path(..., dpi=dpi)
EntryRasterize(ok) ==
    /\ pc = "rasterize"
    /\ log' = Append(log, RasterEvent(dpi, ok))
    /\ IF ok
       THEN /\ pc' = "ocr_pages"
            /\ UNCHANGED error
       ELSE Raise("PDFPageCountError")
    /\ UNCHANGED << dpi, use_ocr >>
    /\ EntryUnchanged

NextEntry ==
    \/ ApiDpi
    \/ LegacyDpi
    \/ CliDpi
    \/ \E ocr \in BOOLEAN : EntryConvert(ocr)
    \/ \E ok \in BOOLEAN : EntryRasterize(ok)

SpecEntry == InitEntry /\ [][NextEntry]_vars

\* --------------------------------------------------------- the constructor
\* PDFConverter(input_pdf, output_format) followed by convert().

RawFormats == {"pdf", "PDF", "Txt", "docx", "DOCX", "xml", "doc", ""}

\* str.lower() on the format strings above
Lower(f) ==
    CASE f = "PDF" -> "pdf"
      [] f = "Txt" -> "txt"
      [] f = "DOCX" -> "docx"
      [] OTHER -> f

\* A constructor that accepts every format.
FormatErrorNever(fmt) == FALSE

\* self.output_format not in ['pdf', 'txt', 'docx']
FormatError(fmt) == fmt \notin Formats

InitConstruct ==
    /\ input_pdf \in { d \in Docs : Len(d.pages) <= 1 }
    /\ output_format = ""
    /\ out_file \in {NoFile, OldFile}
    /\ existing = out_file
    /\ format_arg \in RawFormats
    /\ OutsideIdle
    /\ pc = "new"
    /\ force_ocr = FALSE
    /\ preprocess = TRUE
    /\ preserve_color = TRUE
    /\ scanned = <<>>
    /\ use_ocr = FALSE
    /\ images = <<>>
    /\ i = 1
    /\ pdf_writer = <<>>
    /\ text = <<>>
    /\ log = <<>>
    /\ error = ""

\* PDFConverter.__init__: the lowered format, the existence check, the
\* format check.
Construct(exists) ==
    /\ pc = "new"
    /\ output_format' = Lower(format_arg)
    /\ IF ~exists
       THEN Raise("FileNotFoundError")
       ELSE IF FormatError(Lower(format_arg))
            THEN Raise("ValueError")
            ELSE /\ pc' = "constructed"
                 /\ UNCHANGED error
    /\ UNCHANGED << input_pdf, out_file, existing, force_ocr, preprocess,
                    preserve_color, scanned, use_ocr, images, i, pdf_writer,
                    text, log >>
    /\ UNCHANGED outside_convert

NextConstruct ==
    \/ \E exists \in BOOLEAN : Construct(exists)
    \/ Next

SpecConstruct == InitConstruct /\ [][NextConstruct]_vars

\* ---------------------------------------------- the two DOCX emitters
\* save_as_docx of backend/pdf_converter.py and of the legacy
\* pdf_converter.py, called on an extracted text.

Impls == {"backend", "legacy"}

\* The legacy title: title.alignment = WD_ALIGN_PARAGRAPH.CENTER
LegacyTitleParagraph == [TitleParagraph EXCEPT !.alignment = "CENTER"]

LegacyDocxDocument(s) ==
    << LegacyTitleParagraph, Paragraph(<<>>) >> \o DocxPages(PageSplit(s), 1)

\* The texts the extractors return: one section per page.
ExtractedTexts ==
    UNION { { [k \in 1..n |-> Section(k, f[k])] : f \in [1..n -> RecTexts \cup { << OCR_FAILED >> }] }
            : n \in 0..MaxPages }

InitDocx ==
    /\ input_pdf = SourceDoc(FALSE, <<>>)
    /\ output_format = "docx"
    /\ out_file \in {NoFile, OldFile}
    /\ existing = out_file
    /\ format_arg = "docx"
    /\ impl \in Impls
    /\ entry = ""
    /\ dpi_arg = NoDpi
    /\ dpi = 0
    /\ clock = 0
    /\ upload_folder = {}
    /\ output_folder = {}
    /\ req = <<>>
    /\ html = <<>>
    /\ doc = <<>>
    /\ pc = "save_as_docx"
    /\ force_ocr = FALSE
    /\ preprocess = TRUE
    /\ preserve_color = TRUE
    /\ scanned = <<>>
    /\ use_ocr = FALSE
    /\ images = <<>>
    /\ i = 1
    /\ pdf_writer = <<>>
    /\ text \in ExtractedTexts
    /\ log = <<>>
    /\ error = ""

\* save_as_docx(text, output_path) of either module
SaveDocx(outcome) ==
    /\ pc = "save_as_docx"
    /\ LET document == IF impl = "legacy"
                       THEN LegacyDocxDocument(Join(text))
                       ELSE DocxDocument(Join(text))
       IN  out_file' = Written(out_file, outcome, DocxFile(document))
    /\ log' = Append(log, Event("write", 0, NoImage, outcome = "ok"))
    /\ IF outcome = "ok"
       THEN pc' = "done" /\ UNCHANGED error
       ELSE Raise("OSError")
    /\ UNCHANGED << input_pdf, output_format, existing, force_ocr, preprocess,
                    preserve_color, scanned, use_ocr, images, i, pdf_writer,
                    text >>
    /\ UNCHANGED outside_convert

NextDocx == \E outcome \in WriteOutcomes : SaveDocx(outcome)

SpecDocx == InitDocx /\ [][NextDocx]_vars

\* --------------------------------------------- html_to_docx (docx_html.py)
\* The tree BeautifulSoup(html, "html.parser") builds: a node is a tag with
\* a name, a style attribute and children, or a string (name "") with its
\* text. Strings are token sequences as above; W(s, n) is a word of n
\* characters.

W(s, n) == <<s, n>>

NoColor == [form |-> "none", r |-> 0, g |-> 0, b |-> 0]

\* color: #rrggbb, each pair given by its value
HexColor(r, g, b) == [form |-> "hex", r |-> r, g |-> g, b |-> b]

\* color: rgb(r, g, b)
RgbColor(r, g, b) == [form |-> "rgb", r |-> r, g |-> g, b |-> b]

\* The style attribute: its font-size declaration (none, or a number and a
\* unit; malformed is a number float() rejects, like 1.2.3) and its color.
Style(font, color) == [font |-> font, color |-> color]

FontSize(value, unit) == << [value |-> value, unit |-> unit, malformed |-> FALSE] >>

NoStyle == Style(<<>>, NoColor)

Tag(name, style, children) ==
    [name |-> name, style |-> style, children |-> children, text |-> <<>>]

Str(s) == [name |-> "", style |-> NoStyle, children |-> <<>>, text |-> s]

\* Sizes are kept in quarter points, so that px * 0.75 stays an integer.
QPT == 4
MIN_PT == 6
MAX_PT == 72

\* A parser that takes every number as points, whatever its unit.
ParseFontSizeAsPoints(style) ==
    IF style.font = <<>> \/ style.font[1].malformed THEN <<>>
    ELSE << QPT * style.font[1].value >>

\* _parse_font_size: <<>> for None, else << size in quarter points >>
_parse_font_size(style) ==
    IF style.font = <<>> \/ style.font[1].malformed THEN <<>>
    ELSE LET value == style.font[1].value
             unit == style.font[1].unit
         IN  CASE unit = "px" -> << 3 * value >>
               [] unit = "em" -> << 12 * QPT * value >>
               [] OTHER -> << QPT * value >>

\* _parse_color: <<>> for None, else << (r, g, b) >>
_parse_color(style) ==
    IF style.color.form = "none" THEN <<>>
    ELSE << << style.color.r, style.color.g, style.color.b >> >>

\* A run of a paragraph; size 0 and color <<>> stand for "not set".
InlineRun(s) ==
    [text |-> s, bold |-> FALSE, italic |-> FALSE, underline |-> FALSE,
     size |-> 0, color |-> <<>>, br |-> FALSE]

\* run = paragraph.add_run(); run.add_br()
BreakRun == [InlineRun(<<>>) EXCEPT !.br = TRUE]

\* A paragraph of the document html_to_docx builds.
Block(style, runs) == [style |-> style, runs |-> runs, alignment |-> "unset"]

\* _add_inline_format(run, tag, style)
_add_inline_format(run, name, style) ==
    LET named == CASE name \in {"strong", "b"} -> [run EXCEPT !.bold = TRUE]
                   [] name \in {"em", "i"} -> [run EXCEPT !.italic = TRUE]
                   [] name = "u" -> [run EXCEPT !.underline = TRUE]
                   [] OTHER -> run
        pt == _parse_font_size(style)
        rgb == _parse_color(style)
        sized == IF pt # <<>>
                 THEN [named EXCEPT !.size = Min(Max(pt[1], MIN_PT * QPT), MAX_PT * QPT)]
                 ELSE named
    IN  IF style = NoStyle THEN named
        ELSE IF rgb # <<>> THEN [sized EXCEPT !.color = rgb[1]] ELSE sized

InlineTags == {"strong", "b", "em", "i", "u", "span"}

\* tag.string: <<>> for None, else << the string >>
RECURSIVE TagString(_)
TagString(tag) ==
    IF Len(tag.children) # 1 THEN <<>>
    ELSE IF tag.children[1].name = "" THEN << tag.children[1].text >>
         ELSE TagString(tag.children[1])

RECURSIVE _process_inline(_, _)
RECURSIVE ProcessChildren(_, _, _)
RECURSIVE FormatChildren(_, _, _)

\* for child in tag.children: _process_inline(child, paragraph), from child k
ProcessChildren(tag, k, runs) ==
    IF k > Len(tag.children) THEN runs
    ELSE ProcessChildren(tag, k + 1, _process_inline(tag.children[k], runs))

\* The loop over the children of strong, b, em, i, u and span, from child k.
FormatChildren(tag, k, runs) ==
    IF k > Len(tag.children) THEN runs
    ELSE LET child == tag.children[k]
             stripped == Strip(child.text)
         IN  FormatChildren(tag, k + 1,
                IF child.name # "" THEN _process_inline(child, runs)
                ELSE IF stripped # <<>>
                     THEN Append(runs, _add_inline_format(InlineRun(stripped),
                                                          tag.name, tag.style))
                     ELSE runs)

\* An inline walk that drops a list nested in the element it processes.
ProcessInlineDroppingLists(element, runs) ==
    IF element.name = ""
    THEN (IF Strip(element.text) # <<>>
          THEN Append(runs, InlineRun(Strip(element.text)))
          ELSE runs)
    ELSE IF element.name = "br" THEN Append(runs, BreakRun)
    ELSE IF element.name \in {"ul", "ol"} THEN runs
    ELSE IF element.name \in InlineTags THEN FormatChildren(element, 1, runs)
    ELSE IF TagString(element) # <<>> /\ TagString(element)[1] # <<>>
         THEN Append(runs, _add_inline_format(InlineRun(Strip(TagString(element)[1])),
                                              element.name, element.style))
         ELSE ProcessChildren(element, 1, runs)

\* _process_inline(element, paragraph): the runs of the paragraph afterwards
_process_inline(element, runs) ==
    IF element.name = ""
    THEN (IF Strip(element.text) # <<>>
          THEN Append(runs, InlineRun(Strip(element.text)))
          ELSE runs)
    ELSE IF element.name = "br" THEN Append(runs, BreakRun)
    ELSE IF element.name \in InlineTags THEN FormatChildren(element, 1, runs)
    ELSE IF TagString(element) # <<>> /\ TagString(element)[1] # <<>>
         THEN Append(runs, _add_inline_format(InlineRun(Strip(TagString(element)[1])),
                                              element.name, element.style))
         ELSE ProcessChildren(element, 1, runs)

\* int(name[1])
HeadingLevel(name) ==
    CASE name = "h1" -> 1 [] name = "h2" -> 2 [] name = "h3" -> 3
      [] name = "h4" -> 4 [] name = "h5" -> 5 [] name = "h6" -> 6

HeadingStyle(level) ==
    CASE level = 1 -> "Heading 1" [] level = 2 -> "Heading 2" [] level = 3 -> "Heading 3"
      [] level = 4 -> "Heading 4" [] level = 5 -> "Heading 5" [] level = 6 -> "Heading 6"

\* A list whose items all are bullets.
ListStyleBullet(name) == "List Bullet"

\* "List Bullet" if name == "ul" else "List Number"
ListStyle(name) == IF name = "ul" THEN "List Bullet" ELSE "List Number"

\* tag.find_all("li", recursive=False)
DirectItems(tag) == SelectSeq(tag.children, LAMBDA c : c.name = "li")

\* The paragraphs one element of blocks adds to the document.
BlockParagraphs(tag) ==
    CASE tag.name \in {"p", "div"} ->
            << Block("Normal", ProcessChildren(tag, 1, <<>>)) >>
      [] tag.name \in {"h1", "h2", "h3", "h4", "h5", "h6"} ->
            << Block(HeadingStyle(HeadingLevel(tag.name)), ProcessChildren(tag, 1, <<>>)) >>
      [] tag.name \in {"br", "hr"} -> << Block("Normal", <<>>) >>
      [] tag.name \in {"ul", "ol"} ->
            LET items == DirectItems(tag)
            IN  [k \in 1..Len(items) |->
                    Block(ListStyle(tag.name), ProcessChildren(items[k], 1, <<>>))]
      [] tag.name = "li" -> << Block("List Bullet", ProcessChildren(tag, 1, <<>>)) >>
      [] OTHER -> << Block("Normal", ProcessChildren(tag, 1, <<>>)) >>

\* soup.find("body"): the first body tag in document order, <<>> for None
RECURSIVE FindBody(_, _)
FindBody(nodes, k) ==
    IF k > Len(nodes) THEN <<>>
    ELSE IF nodes[k].name = "body" THEN << nodes[k] >>
    ELSE LET inside == FindBody(nodes[k].children, 1)
         IN  IF inside # <<>> THEN inside ELSE FindBody(nodes, k + 1)

\* blocks = list(body.children)
BlocksOf(soup) ==
    IF FindBody(soup, 1) # <<>> THEN FindBody(soup, 1)[1].children ELSE soup

\* The loop over blocks from node k. A string has the name None, so it takes
\* the last branch: a paragraph is added and tag.children raises.
RECURSIVE WalkBlocks(_, _, _)
WalkBlocks(blocks, k, paragraphs) ==
    IF k > Len(blocks) THEN [raised |-> FALSE, paragraphs |-> paragraphs]
    ELSE IF blocks[k].name = ""
         THEN [raised |-> TRUE, paragraphs |-> Append(paragraphs, Block("Normal", <<>>))]
         ELSE WalkBlocks(blocks, k + 1, paragraphs \o BlockParagraphs(blocks[k]))

\* if len(doc.paragraphs) == 0: doc.add_paragraph()
AtLeastOne(paragraphs) ==
    IF Len(paragraphs) = 0 THEN << Block("Normal", <<>>) >> ELSE paragraphs

\* The font-size declarations of the style attributes the editor posts; the
\* last is a number float() rejects.
FontSizes ==
    { FontSize(4, "pt"), FontSize(6, "pt"), FontSize(72, "pt"), FontSize(73, "pt"),
      FontSize(12, ""), FontSize(0, ""), FontSize(16, "px"), FontSize(200, "px"),
      FontSize(1, "em"), FontSize(10, "em"),
      << [value |-> 1, unit |-> "pt", malformed |-> TRUE] >> }

\* <p><strong>Hi</strong> there</p>
HiThere ==
    Tag("p", NoStyle, << Tag("strong", NoStyle, << Str(<< W("Hi", 2) >>) >>),
                         Str(<< SP, W("there", 5) >>) >>)

\* <ul><li>one<ul><li>two</li></ul></li><li>three</li></ul>
NestedUl ==
    Tag("ul", NoStyle,
        << Tag("li", NoStyle,
               << Str(<< W("one", 3) >>),
                  Tag("ul", NoStyle, << Tag("li", NoStyle, << Str(<< W("two", 3) >>) >>) >>) >>),
           Tag("li", NoStyle, << Str(<< W("three", 5) >>) >>) >>)

\* <ol><li>a<ol><li>c</li><li>d</li></ol></li></ol>
NestedOl ==
    Tag("ol", NoStyle,
        << Tag("li", NoStyle,
               << Str(<< W("a", 1) >>),
                  Tag("ol", NoStyle, << Tag("li", NoStyle, << Str(<< W("c", 1) >>) >>),
                                        Tag("li", NoStyle, << Str(<< W("d", 1) >>) >>) >>) >>) >>)

\* <p><span style="color:#ff0000"><b>x</b></span></p>
SpanRedBold ==
    Tag("p", NoStyle, << Tag("span", Style(<<>>, HexColor(255, 0, 0)),
                             << Tag("b", NoStyle, << Str(<< W("x", 1) >>) >>) >>) >>)

\* <p><strong><em>x</em></strong></p>
StrongEm ==
    Tag("p", NoStyle, << Tag("strong", NoStyle,
                             << Tag("em", NoStyle, << Str(<< W("x", 1) >>) >>) >>) >>)

\* The top-level nodes of the fragments the editor posts.
TopNodes ==
    { Str(<< SP >>),
      Str(<< W("hello", 5) >>),
      HiThere,
      Tag("h2", NoStyle, << Str(<< W("Title", 5) >>) >>),
      NestedUl,
      NestedOl,
      Tag("br", NoStyle, <<>>),
      Tag("hr", NoStyle, <<>>),
      Tag("li", NoStyle, << Str(<< W("stray", 5) >>) >>),
      Tag("blockquote", NoStyle, << Str(<< W("quote", 5) >>) >>),
      SpanRedBold,
      StrongEm,
      Tag("p", NoStyle, << Tag("span", Style(FontSize(100, "pt"), RgbColor(0, 0, 139)),
                               << Str(<< W("big", 3) >>) >>),
                           Tag("u", Style(FontSize(4, "px"), NoColor),
                               << Str(<< W("small", 5) >>) >>) >>),
      Tag("p", NoStyle, << Str(<< W("x", 1) >>), Tag("br", NoStyle, <<>>),
                           Tag("i", NoStyle, << Str(<< W("y", 1) >>) >>) >>),
      Tag("div", NoStyle, <<>>),
      Tag("body", NoStyle, << Tag("p", NoStyle, << Str(<< W("in", 2) >>) >>),
                              Tag("hr", NoStyle, <<>>) >>) }
    \cup { Tag("p", NoStyle, << Tag("span", Style(f, NoColor), << Str(<< W("x", 1) >>) >>) >>)
           : f \in FontSizes }

Fragments == SeqsUpTo(TopNodes, MaxBlocks)

InitTranscoder ==
    /\ input_pdf = SourceDoc(FALSE, <<>>)
    /\ output_format = "docx"
    /\ out_file \in {NoFile, OldFile}
    /\ existing = out_file
    /\ format_arg = "docx"
    /\ impl = "backend"
    /\ entry = ""
    /\ dpi_arg = NoDpi
    /\ dpi = 0
    /\ clock = 0
    /\ upload_folder = {}
    /\ output_folder = {}
    /\ req = <<>>
    /\ html \in Fragments
    /\ doc = <<>>
    /\ pc = "html_to_docx"
    /\ force_ocr = FALSE
    /\ preprocess = TRUE
    /\ preserve_color = TRUE
    /\ scanned = <<>>
    /\ use_ocr = FALSE
    /\ images = <<>>
    /\ i = 1
    /\ pdf_writer = <<>>
    /\ text = <<>>
    /\ log = <<>>
    /\ error = ""

\* html_to_docx(html, output_path)
html_to_docx(outcome) ==
    /\ pc = "html_to_docx"
    /\ LET walked == WalkBlocks(BlocksOf(html), 1, <<>>)
       IN  IF walked.raised
           THEN /\ doc' = walked.paragraphs
                /\ Raise("AttributeError")
                /\ UNCHANGED << out_file, log >>
           ELSE /\ doc' = AtLeastOne(walked.paragraphs)
                /\ out_file' = Written(out_file, outcome, DocxFile(doc'))
                /\ log' = Append(log, Event("write", 0, NoImage, outcome = "ok"))
                /\ IF outcome = "ok"
                   THEN pc' = "done" /\ UNCHANGED error
                   ELSE Raise("OSError")
    /\ UNCHANGED << input_pdf, output_format, existing, force_ocr, preprocess,
                    preserve_color, scanned, use_ocr, images, i, pdf_writer,
                    text >>
    /\ UNCHANGED << format_arg, impl, entry, dpi_arg, dpi, clock, upload_folder, output_folder, req, html >>

NextTranscoder == \E outcome \in WriteOutcomes : html_to_docx(outcome)

SpecTranscoder == InitTranscoder /\ [][NextTranscoder]_vars

\* ------------------------------------------------------------- properties

\* The events of the log that are attempts on page k, in log order.
Attempts(k) ==
    SelectSeq(log, LAMBDA e : e.page = k
                              /\ e.ev \in {"recognize", "_preprocess_image_for_ocr"})

\* The recognitions of page k, in log order.
Recognitions(k) == SelectSeq(log, LAMBDA e : e.page = k /\ e.ev = "recognize")

Called(ev) == \E j \in DOMAIN log : log[j].ev = ev

\* The trimmed length of the embedded text of page k of the source.
TrimmedLen(k) ==
    IF input_pdf.pages[k].st = "text"
    THEN StrLen(Strip(input_pdf.pages[k].text)) ELSE 0

RECURSIVE SumTrimmed(_)
SumTrimmed(n) == IF n = 0 THEN 0 ELSE TrimmedLen(n) + SumTrimmed(n - 1)

\* C8: is_scanned_pdf returns (and never raises), and its value is true
\* exactly when the source has no page, or cannot be opened, or a sampled page
\* cannot be parsed, or the trimmed embedded text of the first min(3, n) pages
\* averages under 50 characters; pages after the third play no part.
C8_ClassifierThreshold ==
    pc = "classified" =>
        LET n == Len(input_pdf.pages)
            sampled == IF n < 3 THEN n ELSE 3
        IN  /\ error = ""
            /\ Len(scanned) = 1
            /\ scanned[1] <=>
                 \/ ~input_pdf.openable
                 \/ n = 0
                 \/ \E k \in 1..sampled : input_pdf.pages[k].st = "raises"
                 \/ SumTrimmed(sampled) < 50 * sampled

\* C8 witness: four pages, the first three with 49 + 50 + 50 trimmed
\* characters, the fourth with 150; classified as scanned.
C8_Witness ==
    /\ pc = "classified"
    /\ input_pdf.openable
    /\ Len(input_pdf.pages) = 4
    /\ input_pdf.pages[1] = PageText(ShortText)
    /\ input_pdf.pages[2] = PageText(<< X(50) >>)
    /\ input_pdf.pages[3] = PageText(<< X(50) >>)
    /\ input_pdf.pages[4] = PageText(<< X(150) >>)
    /\ scanned = << TRUE >>

\* The number of tokens of the first n strings of a list.
RECURSIVE TokensOfFirst(_, _)
TokensOfFirst(parts, n) ==
    IF n = 0 THEN 0 ELSE Len(parts[n]) + TokensOfFirst(parts, n - 1)

StrLenTokens(parts) == TokensOfFirst(parts, Len(parts))

\* The position in the emitted text at which the section of page k starts.
SectionStart(k) == TokensOfFirst(text, k - 1) + 1

LayoutMode == output_format = "pdf" /\ use_ocr

TextOcrMode == output_format # "pdf" /\ use_ocr

\* Both recognitions of page k raised.
FailedTwice(k) ==
    /\ Len(Recognitions(k)) = 2
    /\ ~Recognitions(k)[1].ok
    /\ ~Recognitions(k)[2].ok

\* C1: in layout mode a page whose recognition fails on the preprocessed
\* image and again on the original image does not make the conversion raise:
\* a placeholder page takes its place, the later pages are processed and a
\* finished conversion has as many pages as the source.
C1_PlaceholderInLayoutMode ==
    LayoutMode =>
        \A k \in 1..Len(images) :
            FailedTwice(k) =>
                /\ error # "RuntimeError"
                /\ Len(pdf_writer) >= k
                /\ pc = "done" => Len(out_file.body) = Len(images)

\* C2: in text mode a page whose recognition on the preprocessed image
\* fails is recognized once more, on its original image, and the marker
\* "[OCR failed for this page]" is emitted only when that retry fails too.
C2_TextModeRetry ==
    TextOcrMode =>
        \A k \in 1..Len(text) :
            (Len(Recognitions(k)) >= 1 /\ ~Recognitions(k)[1].ok) =>
                /\ Len(Recognitions(k)) = 2
                /\ Recognitions(k)[2].image = Image(k)
                /\ text[k] = Section(k, << OCR_FAILED >>) => ~Recognitions(k)[2].ok

\* C3: in layout mode no page is attempted more than twice, a page whose
\* first attempt succeeds is attempted once, and a page whose first attempt
\* fails is attempted exactly once more, by a recognition of the original
\* rasterized image of that same page.
C3_LayoutRetryPolicy ==
    LayoutMode =>
        \A k \in 1..Len(images) :
            LET a == Attempts(k)
            IN  /\ Len(a) <= 2
                /\ (Len(a) >= 1 /\ a[1].ok) => Len(a) = 1
                /\ (Len(a) >= 1 /\ ~a[1].ok) =>
                      /\ Len(a) = 2
                      /\ a[2].ev = "recognize"
                      /\ a[2].image = images[k]
                      /\ a[2].image = Image(k)
                /\ k < i => Len(a) >= 1

\* C3 witness: a finished three-page conversion with preprocessing whose
\* second page failed on the preprocessed image and passed on the original.
C3_Witness ==
    /\ LayoutMode
    /\ pc = "done"
    /\ preprocess
    /\ Len(images) = 3
    /\ Len(Attempts(2)) = 2
    /\ Attempts(2)[1].ev = "recognize"
    /\ Attempts(2)[1].image # Image(2)
    /\ ~Attempts(2)[1].ok
    /\ Attempts(2)[2].ok

\* C4: an OCR-path PDF conversion that returns has written a file with
\* exactly one page per rasterized source page, in page order; while the loop
\* runs the writer holds one page per page already processed.
C4_PageCountPreserved ==
    LayoutMode =>
        /\ pc = "ocr_pages" => Len(pdf_writer) = i - 1
        /\ pc = "done" =>
              /\ out_file.kind = "ocr-pdf"
              /\ Len(out_file.body) = Len(images)
              /\ Len(out_file.body) = Len(input_pdf.pages)
              /\ \A k \in 1..Len(images) : out_file.body[k].image.page = k

\* C4 witness: a finished three-page conversion in which one page came from
\* the first attempt and another from the retry.
C4_Witness ==
    /\ LayoutMode
    /\ pc = "done"
    /\ Len(images) = 3
    /\ Len(Attempts(1)) = 1
    /\ Len(Attempts(3)) = 2
    /\ Len(out_file.body) = 3

\* The contents a section of page k can hold, by what happened to the page.
ResultsOfPage(k) ==
    IF use_ocr
    THEN (IF Len(Attempts(k)) = 1 /\ Attempts(k)[1].ok
          THEN RecTexts ELSE { << OCR_FAILED >> })
    ELSE (IF input_pdf.pages[k].st = "text" /\ input_pdf.pages[k].text # <<>>
          THEN { input_pdf.pages[k].text } ELSE { << NO_TEXT >> })

OcrEvents == {"get_tesseract_version", "convert_from_path", "recognize",
              "_preprocess_image_for_ocr"}

\* C6: a source classified digital, converted to pdf without force_ocr,
\* goes through no engine check, rasterization or recognition, and a finished
\* conversion leaves an exact copy of the source; with force_ocr the OCR path
\* is taken whatever the source holds.
C6_DigitalPassThrough ==
    /\ (output_format = "pdf" /\ scanned = << FALSE >>) =>
          /\ \A j \in DOMAIN log : log[j].ev \notin OcrEvents
          /\ images = <<>> /\ pdf_writer = <<>>
          /\ pc \in {"copy", "done", "raised"}
          /\ pc = "done" => out_file = SourceBytes(input_pdf)
    /\ force_ocr =>
          /\ scanned = <<>>
          /\ use_ocr
          /\ ~Called("copy2") /\ ~Called("extract_text")
          /\ pc \notin {"copy", "extract_text_digital"}
          /\ pc = "done" => Called("get_tesseract_version")

\* C6 witness: a finished pass-through of a three-page digital source.
C6_Witness ==
    /\ output_format = "pdf"
    /\ ~force_ocr
    /\ scanned = << FALSE >>
    /\ Len(input_pdf.pages) = 3
    /\ pc = "done"
    /\ out_file = SourceBytes(input_pdf)

\* The file at the output path is one this conversion did not write.
NotWritten == out_file \in {NoFile, OldFile}

AllPagesResolved ==
    \/ ~use_ocr /\ output_format = "pdf"
    \/ use_ocr /\ Called("convert_from_path") /\ i > Len(images)
    \/ ~use_ocr /\ output_format # "pdf" /\ i > Len(input_pdf.pages)

\* C7: after a fatal error (engine missing, rasterization failure,
\* unrecoverable page, failure during the final write) the output path holds
\* no file of this conversion, and the output file is created only after
\* every page is resolved.
C7_NoOutputAfterFatalError ==
    /\ pc = "raised" => NotWritten
    /\ ~NotWritten => AllPagesResolved

\* The engine check of this request, when it was made.
EngineChecks == SelectSeq(log, LAMBDA e : e.ev = "get_tesseract_version")

\* C9: on both OCR paths the engine check comes before the rasterization
\* and before any page is preprocessed or recognized; when the engine is
\* absent the request raises with no page processed and nothing written.
C9_EngineCheckedFirst ==
    /\ \A j \in DOMAIN log :
          log[j].ev \in {"convert_from_path", "recognize", "_preprocess_image_for_ocr"} =>
              \E j0 \in 1..(j - 1) :
                  log[j0].ev = "get_tesseract_version" /\ log[j0].ok
    /\ (use_ocr /\ pc \in {"rasterize", "ocr_pages", "done"}) =>
          Len(EngineChecks) = 1
    /\ (Len(EngineChecks) >= 1 /\ ~EngineChecks[1].ok) =>
          /\ pc = "raised"
          /\ error = "TesseractNotFoundError"
          /\ ~Called("convert_from_path") /\ ~Called("recognize")
          /\ images = <<>> /\ pdf_writer = <<>> /\ text = <<>>
          /\ out_file = existing

\* C9 witness: a text-mode request on a three-page source that failed on
\* the engine check.
C9_Witness ==
    /\ TextOcrMode
    /\ Len(input_pdf.pages) = 3
    /\ Len(EngineChecks) = 1
    /\ ~EngineChecks[1].ok
    /\ pc = "raised"

\* C10: a file that is at the output path when convert is called keeps its
\* content, whatever the conversion does.
C10_ExistingOutputUntouched ==
    existing # NoFile => out_file = existing

\* The request has saved its upload and has not responded yet.
InFlight(r) == req[r].pc \in {"saved", "constructed", "converted"}

\* C11: two conversion requests in flight at the same time have distinct
\* upload paths and distinct output paths, so each one's upload stays in
\* place with its own content and each converts only its own upload.
C11_RequestPathsDistinct ==
    /\ \A r1 \in DOMAIN req, r2 \in DOMAIN req :
          (r1 # r2 /\ InFlight(r1) /\ InFlight(r2)) =>
              /\ InputPath(r1) # InputPath(r2)
              /\ OutputPath(r1) # OutputPath(r2)
    /\ \A r \in DOMAIN req :
          /\ InFlight(r) =>
                /\ Exists(upload_folder, InputPath(r))
                /\ ContentAt(upload_folder, InputPath(r)) = r
          /\ req[r].converted \in {0, r}

\* The dpi values convert_from_path was called with.
RasterDpis == { log[k].dpi : k \in { j \in DOMAIN log : log[j].ev = "convert_from_path" } }

\* C12: whatever the entry point, the dpi that reaches the rasterizer is
\* within [150, 600]; a requested dpi below 150 arrives as 150 and one above
\* 600 as 600.
C12_DpiClamped ==
    (entry \in EntryPoints) =>
        \A d \in RasterDpis :
            /\ d >= MIN_DPI
            /\ d <= MAX_DPI
            /\ (dpi_arg.kind = "int" /\ dpi_arg.value < MIN_DPI) => d = MIN_DPI
            /\ (dpi_arg.kind = "int" /\ dpi_arg.value > MAX_DPI) => d = MAX_DPI

\* The format strings that name pdf, txt or docx in some letter case.
AcceptedSpellings == {"pdf", "PDF", "txt", "Txt", "TXT", "docx", "DOCX", "Docx"}

\* C13: once the constructor has run on a format that is not pdf, txt or
\* docx in any letter case, the request has been rejected with an error and
\* nothing was classified, checked, rasterized, recognized or written; a
\* format that differs from those only in case is not rejected for its
\* format.
C13_BadFormatRejected ==
    (pc # "new") =>
        /\ (format_arg \notin AcceptedSpellings) =>
              /\ pc = "raised"
              /\ error \in {"ValueError", "FileNotFoundError"}
              /\ log = <<>>
              /\ scanned = <<>>
              /\ images = <<>>
              /\ pdf_writer = <<>>
              /\ text = <<>>
              /\ out_file = existing
        /\ (format_arg \in AcceptedSpellings) => error # "ValueError"

\* The constructor has rejected the format xml of an existing file.
C13_Witness ==
    /\ format_arg = "xml"
    /\ pc = "raised"
    /\ error = "ValueError"

\* The content of page k as the extractor produced it: the section without
\* its header line and the blank line that follows the header.
PageContent(k) == SubSeq(text[k], 4, Len(text[k]))

\* The three paragraphs of page k: heading, body, spacer.
RECURSIVE PageBlocks(_)
PageBlocks(k) ==
    IF k = 0 THEN <<>>
    ELSE PageBlocks(k - 1) \o << HeadingParagraph(<< Digits(k) >>),
                                 BodyParagraph(Strip(PageContent(k))),
                                 Paragraph(<<>>) >>

\* C14: the DOCX written for N extracted pages holds, after the title and
\* its spacer, exactly N headings "Page 1" .. "Page N", each followed by the
\* body paragraph with the page's trimmed content and a spacer, whatever the
\* content is.
C14_DocxPagesRecovered ==
    (pc = "done" /\ output_format = "docx" /\ out_file.kind = "docx") =>
        out_file.body = << TitleParagraph, Paragraph(<<>>) >> \o PageBlocks(Len(text))

\* C15: no paragraph of a document a DOCX emitter wrote carries a paragraph
\* alignment.
C15_NoAlignment ==
    (out_file.kind = "docx") =>
        \A k \in DOMAIN out_file.body : out_file.body[k].alignment = "unset"

\* html_to_docx went through all the blocks and built its document.
DocumentBuilt == pc = "done" \/ (pc = "raised" /\ error = "OSError")

IsBlankString(node) == node.name = "" /\ Strip(node.text) = <<>>

\* C16: html_to_docx on the empty fragment, or on a fragment that holds
\* nothing but whitespace, builds a document of exactly one empty paragraph.
C16_EmptyFragmentOneParagraph ==
    (pc # "html_to_docx" /\ \A k \in DOMAIN html : IsBlankString(html[k])) =>
        /\ DocumentBuilt
        /\ doc = << Block("Normal", <<>>) >>
        /\ (pc = "done") => out_file = DocxFile(doc)

BoldRun(s) == [InlineRun(s) EXCEPT !.bold = TRUE]

\* C17: <p><strong>Hi</strong> there</p> at the head of a fragment becomes a
\* paragraph of exactly two runs, a bold "Hi" and a non-bold " there" with
\* its leading space.
C17_LeadingSpacePreserved ==
    (DocumentBuilt /\ html # <<>> /\ html[1] = HiThere /\ FindBody(html, 1) = <<>>) =>
        doc[1].runs = << BoldRun(<< W("Hi", 2) >>), InlineRun(<< SP, W("there", 5) >>) >>

\* The top-level elements of the fragment.
TopElements == SelectSeq(html, LAMBDA n : n.name # "")

ItemCount(tag) == Len(SelectSeq(tag.children, LAMBDA c : c.name = "li"))

Repeat(x, n) == [k \in 1..n |-> x]

\* The paragraph styles the mapping of the specification gives an element.
SpecStyles(tag) ==
    CASE tag.name = "h1" -> << "Heading 1" >>
      [] tag.name = "h2" -> << "Heading 2" >>
      [] tag.name = "h3" -> << "Heading 3" >>
      [] tag.name = "h4" -> << "Heading 4" >>
      [] tag.name = "h5" -> << "Heading 5" >>
      [] tag.name = "h6" -> << "Heading 6" >>
      [] tag.name = "ul" -> Repeat("List Bullet", ItemCount(tag))
      [] tag.name = "ol" -> Repeat("List Number", ItemCount(tag))
      [] OTHER -> << "Normal" >>

\* The same with a top-level li as a bullet item.
CodeStyles(tag) == IF tag.name = "li" THEN << "List Bullet" >> ELSE SpecStyles(tag)

RECURSIVE SpecStylesOf(_)
SpecStylesOf(elements) ==
    IF elements = <<>> THEN <<>>
    ELSE SpecStyles(Head(elements)) \o SpecStylesOf(Tail(elements))

RECURSIVE CodeStylesOf(_)
CodeStylesOf(elements) ==
    IF elements = <<>> THEN <<>>
    ELSE CodeStyles(Head(elements)) \o CodeStylesOf(Tail(elements))

DocStyles == [k \in DOMAIN doc |-> doc[k].style]

HasList(elements) == \E k \in DOMAIN elements : elements[k].name \in {"ul", "ol"}

\* The stripped texts of the strings below a node, in document order.
RECURSIVE TextsBelow(_)
RECURSIVE TextsOfAll(_)
TextsOfAll(nodes) ==
    IF nodes = <<>> THEN <<>>
    ELSE TextsBelow(Head(nodes)) \o TextsOfAll(Tail(nodes))

TextsBelow(node) ==
    IF node.name = ""
    THEN (IF Strip(node.text) = <<>> THEN <<>> ELSE << Strip(node.text) >>)
    ELSE TextsOfAll(node.children)

\* The texts of the runs of the document, in order, breaks left out.
RECURSIVE TextsFrom(_)
TextsFrom(k) ==
    IF k > Len(doc) THEN <<>>
    ELSE SelectSeq([j \in DOMAIN doc[k].runs |-> doc[k].runs[j].text],
                   LAMBDA t : t # <<>>) \o TextsFrom(k + 1)

WalkedNodes == BlocksOf(html)

AllElements(nodes) == \A k \in DOMAIN nodes : nodes[k].name # ""

NestedTexts(li) ==
    TextsOfAll(SelectSeq(li.children, LAMBDA c : c.name \in {"ul", "ol"}))

Items(tag) == SelectSeq(tag.children, LAMBDA c : c.name = "li")

RunTexts(paragraph) == [k \in DOMAIN paragraph.runs |-> paragraph.runs[k].text]

Range(q) == { q[k] : k \in DOMAIN q }

ListAtHead == html # <<>> /\ html[1].name \in {"ul", "ol"} /\ FindBody(html, 1) = <<>>

ListKind(name) == IF name = "ul" THEN "List Bullet" ELSE "List Number"

RECURSIVE NestedRuns(_, _, _)
RECURSIVE NestedRunsOfAll(_, _, _)
NestedRunsOfAll(nodes, fmt, runs) ==
    IF nodes = <<>> THEN runs
    ELSE NestedRunsOfAll(Tail(nodes), fmt, NestedRuns(Head(nodes), fmt, runs))

NestedRuns(node, fmt, runs) ==
    IF node.name = ""
    THEN (IF Strip(node.text) = <<>> THEN runs
          ELSE Append(runs, [fmt EXCEPT !.text = Strip(node.text)]))
    ELSE IF node.name = "br" THEN Append(runs, BreakRun)
    ELSE NestedRunsOfAll(node.children,
                         _add_inline_format(fmt, node.name, node.style), runs)

\* C20: in a paragraph at the head of a fragment every run carries the bold,
\* italic, underline, size and color of all the inline elements around its
\* text, at any depth.
C20_NestedFormatting ==
    (DocumentBuilt /\ html # <<>> /\ html[1].name = "p" /\ FindBody(html, 1) = <<>>) =>
        doc[1].runs = NestedRunsOfAll(html[1].children, InlineRun(<<>>), <<>>)

\* The runs of all the paragraphs of the document.
AllRuns == UNION { Range(doc[k].runs) : k \in DOMAIN doc }

\* A paragraph holding one span with a font-size declaration around one word
\* is at the head of the fragment.
SizedSpanAtHead ==
    /\ html # <<>>
    /\ FindBody(html, 1) = <<>>
    /\ html[1].name = "p"
    /\ Len(html[1].children) = 1
    /\ html[1].children[1].name = "span"
    /\ html[1].children[1].style.font # <<>>
    /\ html[1].children[1].style.color = NoColor

\* The size in quarter points the claim gives a declaration: the number for
\* pt and for no unit, 3/4 of it for px, 12 times it for em, within
\* [6, 72] points; 0 (unset) for a number that does not parse.
ClaimedSize(font) ==
    LET raw == CASE font.unit = "px" -> 3 * font.value
                 [] font.unit = "em" -> 48 * font.value
                 [] OTHER -> 4 * font.value
    IN  IF font.malformed THEN 0
        ELSE IF raw < 24 THEN 24 ELSE IF raw > 288 THEN 288 ELSE raw

\* C21: every size html_to_docx set on a run is within [6, 72] points, and
\* the run of a span with a font-size declaration has the declared size
\* scaled by its unit and clamped (4pt -> 6pt, 200px -> 72pt, 10em -> 72pt,
\* 16px -> 12pt), or no size when the number does not parse.
C21_FontSizeClamped ==
    (pc # "html_to_docx") =>
        /\ \A run \in AllRuns : run.size = 0 \/ (run.size >= 24 /\ run.size <= 288)
        /\ (DocumentBuilt /\ SizedSpanAtHead) =>
              LET font == html[1].children[1].style.font[1]
                  size == doc[1].runs[1].size
              IN  /\ Len(doc[1].runs) = 1
                  /\ size = ClaimedSize(font)
                  /\ (font = FontSize(4, "pt")[1]) => size = 6 * 4
                  /\ (font = FontSize(200, "px")[1]) => size = 72 * 4
                  /\ (font = FontSize(10, "em")[1]) => size = 72 * 4
                  /\ (font = FontSize(16, "px")[1]) => size = 12 * 4

\* A span of 16px was transcoded to a run of 12 points.
C21_Witness ==
    /\ pc = "done"
    /\ SizedSpanAtHead
    /\ html[1].children[1].style.font = FontSize(16, "px")
    /\ doc[1].runs[1].size = 48

\* The pages whose section is the failure placeholder.
FailedPages == { k \in DOMAIN text : text[k] = Section(k, << OCR_FAILED >>) }

\* C22: when convert has returned from an OCR text extraction in which
\* pages got the placeholder, what it returned carries the number of those
\* pages.
C22_PlaceholderCountReported ==
    (pc = "done" /\ output_format # "pdf" /\ use_ocr /\ FailedPages # {}) =>
        /\ "failed_pages" \in DOMAIN ConvertReturn
        /\ ConvertReturn.failed_pages = Cardinality(FailedPages)

\* C23: with preprocessing on, in layout mode and in text mode, the image
\* recognized in a page's first attempt is grayscale exactly when
\* preserve_color is false, keeps its color mode when preserve_color is
\* true, and has had the contrast boost and then the sharpness boost.
C23_GrayscaleIffNotPreserveColor ==
    (use_ocr /\ preprocess) =>
        \A k \in DOMAIN images :
            (Attempts(k) # <<>> /\ Attempts(k)[1].ev = "recognize") =>
                LET image == Attempts(k)[1].image
                IN  /\ (image.mode = "L") <=> ~preserve_color
                    /\ preserve_color => image.mode = images[k].mode
                    /\ image.ops = << "Contrast(1.5)", "Sharpness(1.5)" >>

\* The request saved its upload and has responded, with success or with the
\* error of the except clause.
FinishedAfterSave(r) == req[r].status \in {200, 500}

\* No other request has taken the same upload path.
PathOwnedAlone(r) ==
    \A r2 \in DOMAIN req :
        r2 # r => (req[r2].pc = "idle" \/ req[r2].status = 400
                   \/ InputPath(r2) # InputPath(r))

\* C24: once a request that saved its upload has responded, whether with
\* success or with an error, its upload is no longer in the upload folder.
C24_UploadRemovedAfterRequest ==
    \A r \in DOMAIN req :
        (FinishedAfterSave(r) /\ PathOwnedAlone(r)) =>
            ~Exists(upload_folder, InputPath(r))

\* C25: the file a successful request's download_url serves is sent under
\* the name in the 'filename' field of the response.
C25_DownloadNameIsFilename ==
    \A r \in DOMAIN req :
        (req[r].pc = "downloaded" /\ req[r].status = 200) =>
            req[r].download_name = OutputFilename(r)

====
